---------------------------- MODULE Spec2Model ----------------------------
(***************************************************************************)
(* The DMG training engine (DMG.py) and the offline driver loop            *)
(* (train_offline.py).                                                     *)
(*                                                                         *)
(* Every parameter set of a network is abstracted to one number.  A        *)
(* trained set (actor, critic, value_critic) holds a value of ParamVals;   *)
(* an optimizer step replaces it by the value g.v / g.q / g.pi that the    *)
(* sampled batch produces (an input of the call).  A target set holds an   *)
(* exact fraction <<n, k>> = n / TauDen^k, so that the Polyak rule is      *)
(* computed without rounding.  decay_rate is the exact fraction            *)
(* <<n, k>> = n / ExpDecayDen^k and the mixing coefficients are exact      *)
(* fractions in thousandths; IEEE rounding is not modelled.                *)
(***************************************************************************)
EXTENDS Integers, Sequences, FiniteSets, TLC

(***************************************************************************)
(* Bounds of the model.                                                    *)
(***************************************************************************)
MaxIt == 4
MaxRunIt == 10000
MaxCkIt == 2
MaxDecays == 2
MaxSaves == 2
MaxLoads == 1
MaxRaises == 1
TrajCap == 3
EvalFreq == 1000

(***************************************************************************)
(* Program constants.                                                      *)
(***************************************************************************)
TauDen == 200
DecayPeriod == 1000
LogPeriod == 10000
ExpDecayNum == 99
ExpDecayDen == 100
LamStart == 250
LamEnd == 500
NuStart == 500
NuEnd == 5
CosineSteps == 1000000
MaxTimestepsDefault == 1000000
MaxAction == 1

ParamVals == {0, 1}
PolicyFreqs == {2, 3}
ProbeStates == {-2, 1}
WriterKinds == {"sink", "none", "sink_fails_late"}
FileNames == {"critic", "critic_target", "critic_optimizer", "value_critic",
              "value_critic_optimizer", "actor", "actor_target", "actor_optimizer"}

RECURSIVE Pow(_, _)
Pow(b, e) == IF e = 0 THEN 1 ELSE b * Pow(b, e - 1)

(***************************************************************************)
(* Exact fractions <<n, k>> = n / base^k.                                  *)
(***************************************************************************)
RECURSIVE Reduce(_, _)
Reduce(f, base) ==
    IF f[2] > 0 /\ f[1] % base = 0 THEN Reduce(<<f[1] \div base, f[2] - 1>>, base) ELSE f

\* x <= y for two fractions over the same base
FracLE(x, y, base) ==
    LET k == IF x[2] > y[2] THEN x[2] ELSE y[2]
    IN  x[1] * Pow(base, k - x[2]) <= y[1] * Pow(base, k - y[2])

\* a trained parameter value seen as a target fraction (copy.deepcopy)
DeepCopy(p) == <<p, 0>>


(***************************************************************************)
(* The engine object.                                                      *)
(***************************************************************************)
VARIABLES
    dmg,            \* the DMG object: its fields, named as in DMG.__init__
    files,          \* the checkpoint directory: <<name, step>> -> saved blob
    writer_log,     \* scalars the logging sink has accepted: <<tag, step, value>>
    max_timesteps,  \* the caller's number of offline steps (args.max_timesteps)
    alive,          \* FALSE once an exception has ended the caller's run
    last,           \* what the most recent call did: stages run, values read
    calls,          \* history: training calls made since construction
    fired,          \* history: completed delayed stages (Polyak updates)
    decay_hits,     \* history: train_online calls landing on a multiple of 1000
    traj,           \* history: <<critic, actor>> at each Polyak update (first TrajCap)
    born,           \* history: <<critic, actor>> as constructed
    loads,          \* history: completed load calls
    raised_calls,   \* history: the numbers of the training calls that raised
    saved_state,    \* history: step -> the engine as it was when save wrote that step
    prev_online     \* history: <<lam, nu>> used by the previous train_online call

vars == <<dmg, files, writer_log, max_timesteps, alive, last, calls, fired,
          decay_hits, traj, born, loads, raised_calls, saved_state, prev_online>>

BaseLR == <<0, 0>>
NoReads == [site \in {} |-> 0]

\* torch.optim.Adam(...): the optimizer state is the number of steps taken;
\* the policy optimizer also carries its learning rate. lr = <<a, b>> stands
\* for 3e-4 * c(a) / c(b), c(t) = (1 + cos(pi * t / T_max)) / 2, so that
\* lr = 3e-4 exactly when lr = BaseLR.
NewDMG(a0, c0, v0, pf) ==
    [ actor |-> a0,
      actor_target |-> DeepCopy(a0),
      actor_optimizer |-> [steps |-> 0, lr |-> BaseLR],
      critic |-> c0,
      critic_optimizer |-> [steps |-> 0],
      critic_target |-> DeepCopy(c0),
      value_critic |-> v0,
      value_critic_optimizer |-> [steps |-> 0],
      policy_freq |-> pf,
      actor_lr_schedule |-> [last_epoch |-> 0, T_max |-> CosineSteps \div pf],
      lam |-> LamStart,
      lam_end |-> LamEnd,
      nu |-> NuStart,
      nu_end |-> NuEnd,
      total_it |-> 0,
      decay_rate |-> <<1, 0>> ]

AdamStep(opt) == [opt EXCEPT !.steps = @ + 1]

\* CosineAnnealingLR.step(): last_epoch += 1 and the learning rate is
\* multiplied by c(last_epoch + 1) / c(last_epoch) (the chained form).
CosineStep(d) ==
    LET e == d.actor_lr_schedule.last_epoch
        lr == d.actor_optimizer.lr
    IN  [d EXCEPT !.actor_lr_schedule.last_epoch = e + 1,
                  !.actor_optimizer.lr = IF lr = BaseLR THEN <<e + 1, e>>
                                         ELSE <<e + 1, lr[2]>>]

\* the rule with the weights tau and 1 - tau exchanged
PolyakUpdateSwapped(param, target) ==
    Reduce(<<(TauDen - 1) * param * Pow(TauDen, target[2]) + target[1], target[2] + 1>>, TauDen)

\* target <- tau * param + (1 - tau) * target, tau = 1 / TauDen
PolyakUpdate(param, target) ==
    Reduce(<<param * Pow(TauDen, target[2]) + (TauDen - 1) * target[1], target[2] + 1>>, TauDen)

\* self.decay_rate * self.exp_decay
DecayMul(d) == <<d[1] * ExpDecayNum, d[2] + 1>>

\* a decay tick taken by train_offline as well
DecayTickAnyMode(d, mode) ==
    IF d.total_it % DecayPeriod = 0
    THEN [d EXCEPT !.decay_rate = DecayMul(@)] ELSE d

\* the decay tick of train_online (and none in train_offline)
DecayTick(d, mode) ==
    IF mode = "online" /\ d.total_it % DecayPeriod = 0
    THEN [d EXCEPT !.decay_rate = DecayMul(@)] ELSE d

\* lam = lam_end - (lam_end - lam) * decay_rate, in thousandths
AnnealLam(d, rate) ==
    Reduce(<<d.lam_end * Pow(ExpDecayDen, rate[2]) - (d.lam_end - d.lam) * rate[1], rate[2]>>,
           ExpDecayDen)

\* nu = nu_end + (nu - nu_end) * decay_rate, in thousandths
AnnealNu(d, rate) ==
    Reduce(<<d.nu_end * Pow(ExpDecayDen, rate[2]) + (d.nu - d.nu_end) * rate[1], rate[2]>>,
           ExpDecayDen)

\* the coefficients a call uses in Stage Q and Stage Pi
Coefficients(d, mode) ==
    IF mode = "online"
    THEN [lam |-> AnnealLam(d, d.decay_rate), nu |-> AnnealNu(d, d.decay_rate)]
    ELSE [lam |-> <<d.lam, 0>>, nu |-> <<d.nu, 0>>]

\* the test shifted by one call
IsDelayedOffByOne(d) == (d.total_it + 1) % d.policy_freq = 0

\* if self.total_it % self.policy_freq == 0
IsDelayed(d) == d.total_it % d.policy_freq = 0

\* a logging period of 5000 steps
IsLogStepHalved(d) == d.total_it % (LogPeriod \div 2) = 0

\* if self.total_it % 10000 == 0
IsLogStep(d) == d.total_it % LogPeriod = 0

(***************************************************************************)
(* One training call as a pipeline over a call context                     *)
(*   c = [dmg, mode, coef, reads, ran, emitted, raised].                   *)
(* reads records, per read site, the parameter value the site evaluated;   *)
(* ran the stages whose update was applied; emitted the scalars handed to  *)
(* the sink; raised where the call raised ("no" when it has not).          *)
(***************************************************************************)

\* lam and nu computed before the decay tick
EnterCoefFirst(d, mode) ==
    LET d1 == DecayTick([d EXCEPT !.total_it = @ + 1], mode)
    IN  [dmg |-> d1, mode |-> mode, coef |-> Coefficients(d, mode),
         reads |-> NoReads, ran |-> {}, emitted |-> {}, raised |-> "no"]

\* self.total_it += 1, the decay tick and lam / nu of train_online
Enter(d, mode) ==
    LET d1 == DecayTick([d EXCEPT !.total_it = @ + 1], mode)
    IN  [dmg |-> d1, mode |-> mode, coef |-> Coefficients(d1, mode),
         reads |-> NoReads, ran |-> {}, emitted |-> {}, raised |-> "no"]

\* self.replay_buffer.sample(batch_size)
Sample(c, ok) == IF ok THEN c ELSE [c EXCEPT !.raised = "sample"]

\* value_critic: the expectile regression against the target critic
StageV(c, g) ==
    IF c.raised # "no" THEN c
    ELSE [c EXCEPT
            !.reads = @ @@ [V_critic_target |-> c.dmg.critic_target,
                            V_value_critic |-> c.dmg.value_critic],
            !.dmg.value_critic = g.v,
            !.dmg.value_critic_optimizer = AdamStep(@),
            !.ran = @ \cup {"V"}]

\* writer.add_scalar of critic_loss, Q and iqlV, keyed by total_it
LogCritic(c, w) ==
    IF ~IsLogStep(c.dmg) THEN c
    ELSE IF w = "none" THEN [c EXCEPT !.raised = "log_critic"]
    ELSE [c EXCEPT !.emitted = @ \cup
            { <<tag, c.dmg.total_it, <<0, 0>> >> :
                  tag \in {"train/critic_loss", "train/Q", "train/iqlV"} }]

\* critic: the regression against the blended target, then the optimizer step
StageQ(c, g, w) ==
    IF c.raised # "no" THEN c
    ELSE LET c1 == [c EXCEPT
                      !.reads = @ @@ [Q_actor_target |-> c.dmg.actor_target,
                                      Q_critic_target |-> c.dmg.critic_target,
                                      Q_value_critic |-> c.dmg.value_critic,
                                      Q_critic |-> c.dmg.critic,
                                      Q_lam |-> c.coef.lam]]
             c2 == LogCritic(c1, w)
         IN  IF c2.raised # "no" THEN c2
             ELSE [c2 EXCEPT !.dmg.critic = g.q,
                             !.dmg.critic_optimizer = AdamStep(@),
                             !.ran = @ \cup {"Q"}]

\* a policy step whose backward pass also writes the critic
PolicyStepThroughCritic(d, g) ==
    [d EXCEPT !.actor = g.pi, !.critic = g.pi, !.actor_optimizer = AdamStep(@)]

\* actor_optimizer.zero_grad(); actor_loss.backward(); actor_optimizer.step()
PolicyStep(d, g) ==
    [d EXCEPT !.actor = g.pi, !.actor_optimizer = AdamStep(@)]

\* writer.add_scalar of actor_loss (and of lam and nu in train_online)
LogActor(c, w) ==
    IF ~IsLogStep(c.dmg) THEN c
    ELSE IF w # "sink" THEN [c EXCEPT !.raised = "log_actor"]
    ELSE [c EXCEPT !.emitted = @ \cup
            ( { <<"train/actor_loss", c.dmg.total_it, <<0, 0>> >> } \cup
              IF c.mode = "online"
              THEN { <<"train/lam", c.dmg.total_it, c.coef.lam>>,
                     <<"train/nu", c.dmg.total_it, c.coef.nu>> }
              ELSE {} )]

\* the policy update: loss through the critic, optimizer step, in
\* train_offline the step of the cosine schedule, then the actor logging
StagePi(c, g, w) ==
    IF c.raised # "no" THEN c
    ELSE LET d1 == PolicyStep(c.dmg, g)
             c1 == [c EXCEPT
                      !.reads = @ @@ [Pi_actor |-> c.dmg.actor,
                                      Pi_value_critic |-> c.dmg.value_critic,
                                      Pi_critic_target |-> c.dmg.critic_target,
                                      Pi_critic |-> c.dmg.critic,
                                      Pi_nu |-> c.coef.nu],
                      !.dmg = IF c.mode = "offline" THEN CosineStep(d1) ELSE d1,
                      !.ran = @ \cup (IF c.mode = "offline" THEN {"Pi", "sched"} ELSE {"Pi"})]
         IN  LogActor(c1, w)

\* Update the frozen target models
PolyakStage(c) ==
    IF c.raised # "no" THEN c
    ELSE [c EXCEPT
            !.dmg.critic_target = PolyakUpdate(c.dmg.critic, @),
            !.dmg.actor_target = PolyakUpdate(c.dmg.actor, @),
            !.ran = @ \cup {"polyak"}]

\* Delayed policy updates
Delayed(c, g, w) ==
    IF c.raised = "no" /\ IsDelayed(c.dmg) THEN PolyakStage(StagePi(c, g, w)) ELSE c

\* the critic stage ahead of the value stage
TrainPipelineCriticFirst(c, g, w, ok) ==
    Delayed(StageV(StageQ(Sample(c, ok), g, w), g), g, w)

\* the body of train_offline / train_online after the counter tick
TrainPipeline(c, g, w, ok) ==
    Delayed(StageQ(StageV(Sample(c, ok), g), g, w), g, w)

\* DMG.train_offline (mode = "offline") and DMG.train_online (mode = "online")
TrainCall(d, mode, g, w, ok) == TrainPipeline(Enter(d, mode), g, w, ok)

\* DMG.select_action: max_action * tanh(...), the saturation cut at +-1
Clip(v) == IF v > 1 THEN 1 ELSE IF v < -1 THEN -1 ELSE v

ActorForward(p, x) == MaxAction * Clip(p * x)

\* DMG.save: one file per parameter set and optimizer, tagged with total_it
SaveFiles(d, fs) ==
    [f \in DOMAIN fs \cup {<<n, d.total_it>> : n \in FileNames} |->
        IF f[2] = d.total_it THEN d[f[1]] ELSE fs[f]]

\* load without the reset of the learning rate
LoadFilesKeepLR(d, fs, step) ==
    [name \in DOMAIN d |-> IF name \in FileNames THEN fs[<<name, step>>] ELSE d[name]]

\* DMG.load: every file of the step read back, then the learning rate reset
LoadFiles(d, fs, step) ==
    [[name \in DOMAIN d |-> IF name \in FileNames THEN fs[<<name, step>>] ELSE d[name]]
        EXCEPT !.actor_optimizer.lr = BaseLR]

SavedSteps(fs) == {f[2] : f \in DOMAIN fs}

(***************************************************************************)
(* Actions.                                                                *)
(***************************************************************************)
Observation(op, c, act, step) ==
    [op |-> op, raised |-> c.raised, ran |-> c.ran, reads |-> c.reads,
     lam |-> c.coef.lam, nu |-> c.coef.nu, action |-> act, step |-> step]

Idle(op, act, step, raised) ==
    [op |-> op, raised |-> raised, ran |-> {}, reads |-> NoReads,
     lam |-> <<0, 0>>, nu |-> <<0, 0>>, action |-> act, step |-> step]

\* the batches a call may sample: the values the three optimizer steps produce
Grads == [v : ParamVals, q : ParamVals, pi : ParamVals]

\* batches on which the critic and policy gradients vanish
FlatGrads == {[v |-> nv, q |-> dmg.critic, pi |-> dmg.actor] : nv \in ParamVals}

\* decay_rate stays representable: at most MaxDecays ticks
DecayRoom(mode) ==
    ~(mode = "online" /\ (dmg.total_it + 1) % DecayPeriod = 0 /\ dmg.decay_rate[2] >= MaxDecays)

Train(mode, g, w, ok) ==
    LET c == TrainCall(dmg, mode, g, w, ok)
    IN  /\ DecayRoom(mode)
        /\ dmg' = c.dmg
        /\ writer_log' = writer_log \cup c.emitted
        /\ last' = Observation(IF mode = "offline" THEN "train_offline" ELSE "train_online",
                               c, 0, -1)
        /\ calls' = calls + 1
        /\ fired' = IF "polyak" \in c.ran THEN fired + 1 ELSE fired
        /\ decay_hits' = IF mode = "online" /\ (calls + 1) % DecayPeriod = 0
                         THEN decay_hits + 1 ELSE decay_hits
        /\ traj' = IF "polyak" \in c.ran /\ Len(traj) < TrajCap
                   THEN Append(traj, <<c.dmg.critic, c.dmg.actor>>) ELSE traj
        /\ prev_online' = IF mode = "online" THEN <<c.coef.lam, c.coef.nu>> ELSE prev_online
        /\ raised_calls' = IF c.raised = "no" THEN raised_calls
                           ELSE raised_calls \cup {calls + 1}
        /\ UNCHANGED <<files, max_timesteps, born, loads, saved_state>>

SelectAction(x) ==
    /\ last' = Idle("select_action", ActorForward(dmg.actor, x), -1, "no")
    /\ UNCHANGED <<dmg, files, writer_log, max_timesteps, alive, calls, fired,
                   decay_hits, traj, born, loads, raised_calls, saved_state, prev_online>>

Save ==
    /\ files' = SaveFiles(dmg, files)
    /\ last' = Idle("save", 0, dmg.total_it, "no")
    /\ saved_state' = [n \in DOMAIN saved_state \cup {dmg.total_it} |->
                          IF n = dmg.total_it THEN dmg ELSE saved_state[n]]
    /\ UNCHANGED <<dmg, writer_log, max_timesteps, alive, calls, fired,
                   decay_hits, traj, born, loads, raised_calls, prev_online>>

\* a step with no checkpoint makes torch.load raise before anything is assigned
Load(step) ==
    /\ step \in SavedSteps(files)
    /\ dmg' = LoadFiles(dmg, files, step)
    /\ last' = Idle("load", 0, step, "no")
    /\ loads' = loads + 1
    /\ UNCHANGED <<files, writer_log, max_timesteps, alive, calls, fired,
                   decay_hits, traj, born, raised_calls, saved_state, prev_online>>

Fresh(as, cs, vs, pfs, lens) ==
    /\ dmg \in {NewDMG(a0, c0, v0, pf) : a0 \in as, c0 \in cs, v0 \in vs, pf \in pfs}
    /\ files = [f \in {} |-> 0]
    /\ writer_log = {}
    /\ max_timesteps \in lens
    /\ alive = TRUE
    /\ last = Idle("init", 0, -1, "no")
    /\ calls = 0
    /\ fired = 0
    /\ decay_hits = 0
    /\ traj = <<>>
    /\ born = <<dmg.critic, dmg.actor>>
    /\ loads = 0
    /\ raised_calls = {}
    /\ saved_state = [n \in {} |-> 0]
    /\ prev_online = << <<dmg.lam, 0>>, <<dmg.nu, 0>> >>

(***************************************************************************)
(* Spec: the engine under any caller, for MaxIt training calls and any     *)
(* number of action selections.  The caller passes no writer (the default) *)
(* and its sampler may raise; a caller that catches the exception goes on. *)
(***************************************************************************)
Init == Fresh(ParamVals, ParamVals, ParamVals, PolicyFreqs, {MaxTimestepsDefault})

TrainOffline ==
    \E g \in Grads, ok \in {b \in BOOLEAN : b \/ Cardinality(raised_calls) < MaxRaises} :
        /\ calls < MaxIt
        /\ Train("offline", g, "none", ok)
        /\ alive' = alive

TrainOnline ==
    \E g \in Grads, ok \in {b \in BOOLEAN : b \/ Cardinality(raised_calls) < MaxRaises} :
        /\ calls < MaxIt
        /\ Train("online", g, "none", ok)
        /\ alive' = alive

Probe == \E x \in ProbeStates : SelectAction(x)

Next == TrainOffline \/ TrainOnline \/ Probe

Spec == Init /\ [][Next]_vars

(***************************************************************************)
(* SpecCk: checkpoints of an offline run at policy_freq = 1 (every call    *)
(* runs the delayed stage).  MaxCkIt train_offline calls whose sampler     *)
(* never raises, at most MaxSaves checkpoint steps and MaxLoads loads.     *)
(***************************************************************************)
InitCk == Fresh(ParamVals, ParamVals, {0}, {1}, {MaxTimestepsDefault})

CkTrainOffline ==
    \E g \in Grads :
        /\ calls < MaxCkIt
        /\ Train("offline", g, "none", TRUE)
        /\ alive' = alive

CkSave ==
    /\ Cardinality(SavedSteps(files) \cup {dmg.total_it}) <= MaxSaves
    /\ Save

CkLoad == \E step \in SavedSteps(files) : loads < MaxLoads /\ Load(step)

NextCk == CkTrainOffline \/ CkSave \/ CkLoad

SpecCk == InitCk /\ [][NextCk]_vars

(***************************************************************************)
(* SpecRun: a whole run.  The caller trains offline for max_timesteps      *)
(* calls (the loop of train_offline.py) and online from then on, with a    *)
(* writer of any kind; it evaluates, saves and reloads between calls; an   *)
(* exception ends the run.  The batches are those of FlatGrads.            *)
(***************************************************************************)
RunLengths == {0, LogPeriod - 1, LogPeriod}

InitRun == Fresh({0}, {0}, {0}, PolicyFreqs, RunLengths)

\* the writer argument is read only on a step that logs
WritersAt(it) == IF it % LogPeriod = 0 THEN WriterKinds ELSE {"sink"}

RunOffline ==
    \E g \in FlatGrads, w \in WritersAt(dmg.total_it + 1) :
        /\ alive
        /\ calls < MaxRunIt
        /\ dmg.total_it < max_timesteps
        /\ Train("offline", g, w, TRUE)
        /\ alive' = (last'.raised = "no")

RunOnline ==
    \E g \in FlatGrads, w \in WritersAt(dmg.total_it + 1) :
        /\ alive
        /\ calls < MaxRunIt
        /\ dmg.total_it >= max_timesteps
        /\ Train("online", g, w, TRUE)
        /\ alive' = (last'.raised = "no")

RunEval ==
    /\ alive
    /\ dmg.total_it > 0
    /\ dmg.total_it % EvalFreq = 0
    /\ Probe

RunSave ==
    /\ alive
    /\ dmg.total_it = max_timesteps
    /\ SavedSteps(files) = {}
    /\ Save

RunLoad ==
    \E step \in SavedSteps(files) :
        /\ alive
        /\ dmg.total_it % EvalFreq = 0
        /\ loads < MaxLoads
        /\ Load(step)

NextRun == RunOffline \/ RunOnline \/ RunEval \/ RunSave \/ RunLoad

SpecRun == InitRun /\ [][NextRun]_vars

(***************************************************************************)
(* Properties.                                                             *)
(***************************************************************************)
IsTrain(l) == l.op \in {"train_offline", "train_online"}

\* a step of the behaviour that is one training call
TrainingCall == calls' = calls + 1

Multiples(n, k) == {i \in 1..n : i % k = 0}

C2_StageOrder ==
    [][TrainingCall =>
        LET r == last'.reads
            ran == last'.ran
        IN  /\ "Q" \in ran => "V" \in ran
            /\ "Pi" \in ran => "Q" \in ran
            /\ "polyak" \in ran => "Pi" \in ran
            /\ "V" \in ran =>
                  /\ r.V_critic_target = dmg.critic_target
                  /\ r.V_value_critic = dmg.value_critic
                  /\ dmg'.value_critic_optimizer.steps = dmg.value_critic_optimizer.steps + 1
            /\ "Q" \in ran =>
                  /\ r.Q_value_critic = dmg'.value_critic
                  /\ r.Q_critic = dmg.critic
                  /\ r.Q_critic_target = dmg.critic_target
                  /\ r.Q_actor_target = dmg.actor_target
                  /\ dmg'.critic_optimizer.steps = dmg.critic_optimizer.steps + 1
            /\ "Pi" \in ran =>
                  /\ r.Pi_critic = dmg'.critic
                  /\ r.Pi_value_critic = dmg'.value_critic
                  /\ r.Pi_actor = dmg.actor
                  /\ r.Pi_critic_target = dmg.critic_target]_vars

\* C2 witness: a delayed call in which Stage Q saw a value estimator other
\* than the one Stage V evaluated, Stage Pi a critic other than the one
\* Stage Q started from, and the Polyak update then moved the critic target.
C2_Witness ==
    /\ IsTrain(last)
    /\ "polyak" \in last.ran
    /\ last.reads.Q_value_critic # last.reads.V_value_critic
    /\ last.reads.Pi_critic # last.reads.Q_critic
    /\ dmg.critic_target # last.reads.Pi_critic_target

\* C8: in a training call each parameter set is written by its own rule only:
\* Stage V's step leaves critic, policy and targets as they were (Stage Q
\* reads them unchanged), Stage Q's step leaves value estimator, policy and
\* targets, the policy step and the Polyak update leave value estimator and
\* critic, the Polyak update leaves the policy, and a stage that does not run
\* writes nothing; select_action changes no field of the engine.
C8_OneWriterPerParameterSet ==
    /\ [][TrainingCall =>
            LET r == last'.reads
                ran == last'.ran
            IN  /\ "V" \notin ran => dmg'.value_critic = dmg.value_critic
                /\ "Q" \notin ran => dmg'.critic = dmg.critic
                /\ "Pi" \notin ran => dmg'.actor = dmg.actor
                /\ "polyak" \notin ran =>
                      /\ dmg'.critic_target = dmg.critic_target
                      /\ dmg'.actor_target = dmg.actor_target
                /\ "Q" \in ran =>
                      /\ r.Q_critic = dmg.critic
                      /\ r.Q_critic_target = dmg.critic_target
                      /\ r.Q_actor_target = dmg.actor_target
                      /\ dmg'.value_critic = r.Q_value_critic
                /\ "Pi" \in ran =>
                      /\ r.Pi_actor = dmg.actor
                      /\ r.Pi_critic_target = dmg.critic_target
                      /\ r.Pi_value_critic = r.Q_value_critic
                      /\ dmg'.critic = r.Pi_critic
                      /\ dmg'.value_critic = r.Pi_value_critic
                      /\ dmg'.actor_target = dmg.actor_target \/ "polyak" \in ran]_vars
    /\ [][last'.op = "select_action" => dmg' = dmg]_vars

\* C8 witness: a delayed call that changed all five parameter sets, followed
\* by an action selection.
C8_Witness ==
    /\ last.op = "select_action"
    /\ last.action # 0
    /\ fired > 0
    /\ dmg.critic_target # DeepCopy(born[1])
    /\ dmg.actor_target # DeepCopy(born[2])
    /\ dmg.value_critic_optimizer.steps = calls

\* tau * param + (1 - tau) * target with tau = 1/200, on target = n / 200^k
PolyakRef(param, target) ==
    Reduce(<<200 ^ target[2] * param + 199 * target[1], target[2] + 1>>, 200)

\* the first n delayed updates applied to the copy made at construction
RECURSIVE PolyakTrajectory(_, _, _, _)
PolyakTrajectory(initial, params, which, n) ==
    IF n = 0 THEN <<initial, 0>>
    ELSE PolyakRef(params[n][which], PolyakTrajectory(initial, params, which, n - 1))

TargetsFollowTrajectory ==
    /\ dmg.critic_target = PolyakTrajectory(born[1], traj, 1, fired)
    /\ dmg.actor_target = PolyakTrajectory(born[2], traj, 2, fired)

\* C6 as claimed: after the N-th delayed update each target equals the Polyak
\* rule iterated N times from the copy made at construction.
C6_TargetsArePolyakOfInitialCopy == fired <= Len(traj) => TargetsFollowTrajectory

\* C6 amended: a target is changed by the Polyak rule and by load, which
\* replaces it with the checkpointed target. While no load has happened each
\* target equals the Polyak rule iterated N times from the copy made at
\* construction, the trained parameter taken as it stands after that step's
\* optimizer updates; a step that is neither a delayed update nor a load
\* leaves both targets as they are, a delayed update applies the rule once to
\* the current target, and a load sets both targets to the saved ones.
C6_TargetsArePolyakUntilLoad ==
    /\ [](loads = 0 /\ fired <= Len(traj) => TargetsFollowTrajectory)
    /\ [][/\ TrainingCall /\ "polyak" \in last'.ran =>
                /\ dmg'.critic_target = PolyakRef(dmg'.critic, dmg.critic_target)
                /\ dmg'.actor_target = PolyakRef(dmg'.actor, dmg.actor_target)
          /\ last'.op = "load" =>
                /\ dmg'.critic_target = saved_state[last'.step].critic_target
                /\ dmg'.actor_target = saved_state[last'.step].actor_target
          /\ ~(TrainingCall /\ "polyak" \in last'.ran) /\ last'.op # "load" =>
                /\ dmg'.critic_target = dmg.critic_target
                /\ dmg'.actor_target = dmg.actor_target]_vars

\* C6 witness: two delayed updates and no load, with the trained networks
\* moved away from the targets' starting point and both targets between.
C6_Witness ==
    /\ loads = 0
    /\ fired = 2
    /\ Len(traj) = 2
    /\ dmg.critic_target[2] = 2
    /\ dmg.actor_target[2] = 2
    /\ traj[1] # traj[2]

\* C7: load(step = n) after a save at total_it = n, whatever training and
\* other saves came between, puts the five parameter sets and the three
\* optimizer states back to their values at that save, so select_action
\* answers as it did then; the policy optimizer's learning rate is 3e-4 after
\* every load.
C7_CheckpointRoundTrip ==
    last.op = "load" =>
        /\ last.step \in DOMAIN saved_state
        /\ LET s == saved_state[last.step]
           IN  /\ s.total_it = last.step
               /\ dmg.actor = s.actor
               /\ dmg.actor_target = s.actor_target
               /\ dmg.critic = s.critic
               /\ dmg.critic_target = s.critic_target
               /\ dmg.value_critic = s.value_critic
               /\ dmg.actor_optimizer.steps = s.actor_optimizer.steps
               /\ dmg.critic_optimizer = s.critic_optimizer
               /\ dmg.value_critic_optimizer = s.value_critic_optimizer
               /\ \A x \in ProbeStates :
                     ActorForward(dmg.actor, x) = ActorForward(s.actor, x)
        /\ dmg.actor_optimizer.lr = <<0, 0>>

\* C7 witness: a load of an earlier checkpoint, saved when the schedule had
\* moved the learning rate, after more training and a second save had changed
\* the policy and the critic target.
C7_Witness ==
    /\ last.op = "load"
    /\ last.step < dmg.total_it
    /\ DOMAIN saved_state = {last.step, dmg.total_it}
    /\ saved_state[last.step].actor_optimizer.lr # <<0, 0>>
    /\ saved_state[dmg.total_it].actor # dmg.actor
    /\ saved_state[dmg.total_it].critic_target # dmg.critic_target
    /\ saved_state[dmg.total_it].actor_optimizer.lr # dmg.actor_optimizer.lr

\* the updates a call with this post-increment total_it owes
StagesDue(d) ==
    IF d.total_it % d.policy_freq = 0 THEN {"V", "Q", "Pi", "polyak"} ELSE {"V", "Q"}

\* the five parameter sets, each with the state of the optimizer that writes it
ParameterSets(d) ==
    <<d.value_critic, d.value_critic_optimizer, d.critic, d.critic_optimizer,
      d.actor, d.actor_optimizer.steps, d.critic_target, d.actor_target>>

\* C3 as claimed: a training call, also one that fails partway, ends with
\* every parameter update of its step applied or with no parameter set
\* changed; the value estimator is never one step ahead of the critic.
C3_StepIsAllOrNothing ==
    [][TrainingCall =>
          \/ StagesDue(dmg') \subseteq last'.ran
          \/ ParameterSets(dmg') = ParameterSets(dmg)]_vars

\* k factors of 0.99, as the fraction 99^k / 100^k
DecayRef(k) == <<99 ^ k, k>>

\* C4: decay_rate starts at 1 and is multiplied by exp_decay exactly in the
\* train_online calls whose post-increment total_it is a multiple of 1000;
\* train_offline, select_action, save and load never change it. So it equals
\* exp_decay^k for k the number of such calls, stays in (0, 1], never grows,
\* and is 0.99 after 1000 train_online calls on a fresh engine.
C4_DecayRateIsPowerOfExpDecay ==
    /\ [](/\ dmg.decay_rate = DecayRef(decay_hits)
          /\ dmg.decay_rate[1] > 0
          /\ dmg.decay_rate[1] <= 100 ^ dmg.decay_rate[2]
          /\ decay_hits = 0 => dmg.decay_rate = <<1, 0>>
          /\ max_timesteps = 0 /\ calls = 1000 => dmg.decay_rate = <<99, 1>>)
    /\ [][IF last'.op = "train_online" /\ TrainingCall /\ dmg'.total_it % 1000 = 0
          THEN /\ dmg'.decay_rate = <<99 * dmg.decay_rate[1], dmg.decay_rate[2] + 1>>
               /\ decay_hits' = decay_hits + 1
          ELSE /\ dmg'.decay_rate = dmg.decay_rate
               /\ decay_hits' = decay_hits]_vars

\* C4 witness: 9999 train_offline calls and a save left decay_rate at 1, the
\* train_online call landing on 10000 made it 0.99, and the load after it
\* left it there.
C4_Witness ==
    /\ max_timesteps = 9999
    /\ dmg.total_it = 10000
    /\ last.op = "load"
    /\ last.step = 9999
    /\ decay_hits = 1
    /\ dmg.decay_rate = <<99, 1>>

\* lam and nu (in thousandths) at decay_rate = n / 100^k
LamRef(rate) == Reduce(<<500 * 100 ^ rate[2] - (500 - 250) * rate[1], rate[2]>>, 100)

NuRef(rate) == Reduce(<<5 * 100 ^ rate[2] + (500 - 5) * rate[1], rate[2]>>, 100)

\* lo <= x <= hi for x = n / 100^k
Between(lo, x, hi) == lo * 100 ^ x[2] <= x[1] /\ x[1] <= hi * 100 ^ x[2]

C9_OnePeriodPerRun ==
    (max_timesteps > 0 /\ dmg.total_it >= max_timesteps /\ raised_calls = {}) =>
        /\ dmg.actor_lr_schedule.last_epoch = max_timesteps \div dmg.policy_freq
        /\ dmg.actor_lr_schedule.last_epoch = dmg.actor_lr_schedule.T_max

\* what a training call hands to the sink
Emitted == writer_log' \ writer_log

CriticScalars == {"train/critic_loss", "train/Q", "train/iqlV"}

=============================================================================
